---- MODULE Spec2Model ----
(***************************************************************************)
(* Diff Digest client (src/src/app/page.tsx): the Home component's state,  *)
(* its hydration and save effects, the paginated fetch of diffs and the    *)
(* streamed generation of release notes, one asynchronous generateNotes    *)
(* invocation per click.                                                   *)
(*                                                                         *)
(* Strings are sequences of tokens.  "x" is a visible character, " " a     *)
(* whitespace character, the "E:..." tokens are the fixed diagnostic       *)
(* messages of generateNotes' catch block and "undefined" is what          *)
(* JavaScript's string concatenation makes of a missing map entry.         *)
(***************************************************************************)
EXTENDS Integers, Sequences, FiniteSets, TLC

\* ------------------------------------------------------------------ bounds
\* longest accumulated text an item may reach by appended increments
MaxText == 2
\* generateNotes invocations that may be in flight at the same time
MaxSess == 2
\* highest page number the item source serves
MaxPage == 2
\* most items a single page response carries
MaxPageLen == 2
\* longest diff of an item, in characters
MaxDiff == 4
\* the length the route cuts a diff to (12000 in route.ts 74), scaled down
SliceLimit == 2
\* most chunks an upstream stream delivers
MaxChunks == 3

\* ------------------------------------------------------------------ values
Null == "null"
Undefined == "undefined"
\* a number|null that is null; JavaScript's `n || null` maps 0 there too
NoPage == 0
\* no invocation in flight
Free == [phase |-> "free"]

Ids == {"A", "B", "C"}
Slots == 1..MaxSess

\* DiffItem (page.tsx 7-12); "text" is a non-blank string, "blank" a string
\* that trim() empties, "nostring" a value that is not a string.
GoodItem(i) == [id |-> i, description |-> "text", diff |-> "text", url |-> "text"]
BlankItem(i) == [id |-> i, description |-> "text", diff |-> "blank", url |-> "text"]
BadItem(i) == [id |-> i, description |-> "nostring", diff |-> "text", url |-> "text"]

\* the raw items the item source may put on a page
Catalogue == {GoodItem("A"), GoodItem("B"), BlankItem("C"), BadItem("B")}

\* increments a stream read may deliver
Chunks == {<<"x">>, <<" ">>}

MarkerMsg == "Stream was interrupted. You can resume generation."

\* ------------------------------------------------------------------ state
VARIABLES
  diffs,              \* useState<DiffItem[]>            (page.tsx 53)
  isLoading,          \* useState<boolean>               (54)
  error,              \* useState<string|null>           (55)
  currentPage,        \* useState<number>                (56)
  nextPage,           \* useState<number|null>           (57)
  initialFetchDone,   \* useState<boolean>               (58)
  loadingPR,          \* useState<string|null>           (59)
  generatedNotes,     \* useState<Record<string,string>> (60)
  expandedPRs,        \* useState<Record<string,boolean>>(61)
  interruptedStreams, \* useState<Record<string,string>> (62)
  isHydrated,         \* useState<boolean>               (63)
  storage,            \* localStorage, by STORAGE_KEYS
  boot,               \* position of the mount sequence
  pendingSave,        \* storage keys whose save effect is scheduled
  fetchProc,          \* the fetchDiffs invocation in flight, or Free
  sess,               \* the generateNotes invocations in flight, by slot
  ev,                 \* the step just taken (history)
  pageLog,            \* valid items of the successful fetches since page 1 (history)
  logValid,           \* pageLog describes an unbroken run of successes (history)
  dropped,            \* a refetch click emptied held items and page 1 has not arrived since (history)
  earlyWrites,        \* keys whose stored data was overwritten before loadStoredData ran (history)
  storageFull,        \* localStorage.setItem throws (quota exceeded)
  uncaught,           \* an exception of a storage write left saveToStorage
  wire,               \* a request for notes on its way: client, route, upstream
  cutOff              \* items whose streaming invocation the last reload ended

memVars == <<diffs, isLoading, error, currentPage, nextPage, initialFetchDone,
             loadingPR, generatedNotes, expandedPRs, interruptedStreams, isHydrated>>
vars == <<diffs, isLoading, error, currentPage, nextPage, initialFetchDone,
          loadingPR, generatedNotes, expandedPRs, interruptedStreams, isHydrated,
          storage, boot, pendingSave, fetchProc, sess, ev, pageLog, logValid, dropped,
          earlyWrites, storageFull, uncaught, wire, cutOff>>

\* no request for notes is being followed
NoRequest == [stage |-> "none"]

\* ------------------------------------------------------------------ strings
IsSpace(tok) == tok = " "

RECURSIVE TrimStart(_)
TrimStart(t) ==
  IF t # <<>> /\ IsSpace(Head(t)) THEN TrimStart(Tail(t)) ELSE t

RECURSIVE TrimEnd(_)
TrimEnd(t) ==
  IF t # <<>> /\ IsSpace(t[Len(t)]) THEN TrimEnd(SubSeq(t, 1, Len(t) - 1)) ELSE t

\* String.prototype.trim
Trim(t) == TrimEnd(TrimStart(t))

\* !s.trim(): the string is empty or whitespace only
IsBlank(t) == Trim(t) = <<>>

IsPrefix(p, t) == Len(p) <= Len(t) /\ SubSeq(t, 1, Len(p)) = p
IsStrictPrefix(p, t) == IsPrefix(p, t) /\ Len(p) < Len(t)

\* ------------------------------------------------------------------ records
\* { ...prev, [k]: v }
Put(f, k, v) == [x \in DOMAIN f \cup {k} |-> IF x = k THEN v ELSE f[x]]

\* const n = { ...prev }; delete n[k]
Del(f, k) == [x \in DOMAIN f \ {k} |-> f[x]]

EmptyRec == [x \in {} |-> <<>>]

\* generatedNotes[id] || ""
NotesOr(notes, id) == IF id \in DOMAIN notes THEN notes[id] ELSE <<>>

\* prev[id] + chunk, where a missing entry concatenates as "undefined"
Append2(notes, id, chunk) ==
  (IF id \in DOMAIN notes THEN notes[id] ELSE <<Undefined>>) \o chunk

\* ------------------------------------------------------------------ storage
\* STORAGE_KEYS (page.tsx 23-29)
Keys == {"DIFFS", "NOTES", "EXPANDED", "PAGINATION", "INTERRUPTED"}
ObjectKeys == {"DIFFS", "NOTES", "EXPANDED", "INTERRUPTED"}

\* localStorage.getItem of a key never set
Absent == [kind |-> "absent"]

\* a stored text that JSON.parse rejects
Unparseable == [kind |-> "garbage"]

\* JSON values, as JSON.stringify writes and JSON.parse returns them
JNull == [t |-> "null"]
JNumber(n) == [t |-> "number", n |-> n]
JBoolean(b) == [t |-> "boolean", b |-> b]
JString(str) == [t |-> "string", s |-> str]
JArray(items) == [t |-> "array", items |-> items]
JObject(members) == [t |-> "object", members |-> members]

\* JSON.stringify of the values the save effects pass (34): DiffItem[],
\* Record<string, string>, Record<string, boolean>, the pagination object
StringifyItem(d) ==
  JObject([id |-> JString(d.id), description |-> JString(d.description),
           diff |-> JString(d.diff), url |-> JString(d.url)])

StringifyDiffs(d) == JArray([k \in DOMAIN d |-> StringifyItem(d[k])])

StringifyStrings(rec) == JObject([id \in DOMAIN rec |-> JString(rec[id])])

StringifyFlags(rec) == JObject([id \in DOMAIN rec |-> JBoolean(rec[id])])

StringifyPagination(pag) ==
  JObject([currentPage |-> JNumber(pag.currentPage),
           nextPage |-> IF pag.nextPage = NoPage THEN JNull ELSE JNumber(pag.nextPage),
           initialFetchDone |-> JBoolean(pag.initialFetchDone)])

Stringify(key, data) ==
  [kind |-> "json",
   val |-> CASE key = "DIFFS" -> StringifyDiffs(data)
             [] key = "NOTES" -> StringifyStrings(data)
             [] key = "EXPANDED" -> StringifyFlags(data)
             [] key = "INTERRUPTED" -> StringifyStrings(data)
             [] key = "PAGINATION" -> StringifyPagination(data)]

\* variant for C16: the exception of setItem is thrown on
Uncaught(threw) == threw

\* the catch of saveToStorage (35-37) warns and throws nothing on
Rethrown(threw) == FALSE

\* saveToStorage (32-38): setItem stores the text, or throws and stores nothing
saveToStorage(store, key, data) ==
  IF storageFull THEN store ELSE [store EXCEPT ![key] = Stringify(key, data)]

NothingStored ==
  [DIFFS |-> Absent, NOTES |-> Absent, EXPANDED |-> Absent, INTERRUPTED |-> Absent,
   PAGINATION |-> Absent]

\* variant for C14: what is stored is never read back
LoadsDefault(store, key, defaultValue) == defaultValue

\* loadFromStorage (40-50): the parsed item, whatever its shape, or the
\* default when there is no item or JSON.parse throws
loadFromStorage(store, key, defaultValue) ==
  IF store[key].kind = "json" THEN store[key].val ELSE defaultValue

DefaultPagination == [currentPage |-> 1, nextPage |-> NoPage, initialFetchDone |-> FALSE]

\* reading a property of null throws a TypeError (80-85)
ThrowsOnAccess(v) == v.t = "null"

\* storedDiffs.length > 0 (80): undefined > 0 is false
LengthPositive(v) == v.t = "array" /\ Len(v.items) > 0

\* Object.keys(v).length > 0 (81-83)
HasKeys(v) ==
  \/ v.t = "object" /\ DOMAIN v.members # {}
  \/ v.t = "array" /\ Len(v.items) > 0

\* v[name] of a parsed value that is not null; NoPage stands for a member
\* that is missing or null, FALSE for a missing flag
NumberMember(v, name) ==
  IF v.t = "object" /\ name \in DOMAIN v.members /\ v.members[name].t = "number"
  THEN v.members[name].n ELSE NoPage

FlagMember(v, name) ==
  v.t = "object" /\ name \in DOMAIN v.members /\ v.members[name] = JBoolean(TRUE)

\* the parsed values as the state setters receive them ("as T", 44)
AsItem(v) ==
  [id |-> v.members.id.s, description |-> v.members.description.s,
   diff |-> v.members.diff.s, url |-> v.members.url.s]

AsDiffs(v) == [k \in DOMAIN v.items |-> AsItem(v.items[k])]

AsStrings(v) == [id \in DOMAIN v.members |-> v.members[id].s]

AsFlags(v) == [id \in DOMAIN v.members |-> v.members[id].b]

\* what the save effect of the pagination key writes (117-125)
PaginationOf(cp, np, ifd) ==
  [currentPage |-> cp, nextPage |-> np, initialFetchDone |-> ifd]

\* the save effects (98-131) of the keys in `touched`, run over the state a
\* render committed; each is a no-op until isHydrated
SaveEffects(store, touched, hydrated, d, n, e, i, pag) ==
  [DIFFS |-> IF "DIFFS" \in touched /\ hydrated
             THEN saveToStorage(store, "DIFFS", d).DIFFS ELSE store.DIFFS,
   NOTES |-> IF "NOTES" \in touched /\ hydrated
             THEN saveToStorage(store, "NOTES", n).NOTES ELSE store.NOTES,
   EXPANDED |-> IF "EXPANDED" \in touched /\ hydrated
                THEN saveToStorage(store, "EXPANDED", e).EXPANDED ELSE store.EXPANDED,
   INTERRUPTED |-> IF "INTERRUPTED" \in touched /\ hydrated
                   THEN saveToStorage(store, "INTERRUPTED", i).INTERRUPTED
                   ELSE store.INTERRUPTED,
   PAGINATION |-> IF "PAGINATION" \in touched /\ hydrated
                  THEN saveToStorage(store, "PAGINATION", pag).PAGINATION
                  ELSE store.PAGINATION]

\* variant for C25: the render's save effects write nothing
SkipSaveEffects(store, touched) == store

\* the effects whose dependencies the step changed, run after its render
RunSaveEffects(store, touched) ==
  SaveEffects(store, touched, isHydrated', diffs', generatedNotes', expandedPRs',
              interruptedStreams',
              PaginationOf(currentPage', nextPage', initialFetchDone'))

\* the pagination effect depends on three primitives and reruns when one differs
PaginationTouched ==
  IF <<currentPage', nextPage', initialFetchDone'>>
       # <<currentPage, nextPage, initialFetchDone>>
  THEN {"PAGINATION"} ELSE {}

\* the save effects of the render that follows a handler's state updates
Persist(objKeys) ==
  /\ storage' = RunSaveEffects(storage, objKeys \cup PaginationTouched)
  /\ uncaught' = (uncaught \/ (objKeys \cup PaginationTouched # {}
                                 /\ Rethrown(storageFull)))
  /\ UNCHANGED <<pendingSave, earlyWrites, storageFull, wire, cutOff>>

Ev(k, i, s) == [k |-> k, i |-> i, s |-> s]

\* ------------------------------------------------------------------ mount
\* the state after construction: useState defaults (53-63), nothing stored,
\* the first render committed and its effects not yet run
Init ==
  /\ diffs = <<>>
  /\ isLoading = FALSE
  /\ error = Null
  /\ currentPage = 1
  /\ nextPage = NoPage
  /\ initialFetchDone = FALSE
  /\ loadingPR = Null
  /\ generatedNotes = EmptyRec
  /\ expandedPRs = EmptyRec
  /\ interruptedStreams = EmptyRec
  /\ isHydrated = FALSE
  /\ storage = NothingStored
  /\ boot = "mounted"
  /\ pendingSave = {}
  /\ fetchProc = Free
  /\ sess = [s \in Slots |-> Free]
  /\ ev = Ev("init", "-", 0)
  /\ pageLog = <<>>
  /\ logValid = FALSE
  /\ dropped = FALSE
  /\ earlyWrites = {}
  /\ storageFull = FALSE
  /\ uncaught = FALSE
  /\ wire = NoRequest
  /\ cutOff = {}

\* the effects of the first render (66-131): the save effects see isHydrated
\* false and write nothing, the hydration effect sets isHydrated and arms the
\* zero-delay timer of loadStoredData.  The render that setIsHydrated causes
\* reruns every save effect (isHydrated is a dependency of each).
MountEffects ==
  /\ boot = "mounted"
  /\ isHydrated' = TRUE
  /\ boot' = "timer"
  /\ pendingSave' = Keys
  /\ ev' = Ev("mount", "-", 0)
  /\ UNCHANGED <<diffs, isLoading, error, currentPage, nextPage, initialFetchDone,
                 loadingPR, generatedNotes, expandedPRs, interruptedStreams,
                 storage, fetchProc, sess, pageLog, logValid, dropped, earlyWrites, storageFull, uncaught, wire,
                 cutOff>>

\* the scheduled save effects run (98-131): a task of React's scheduler,
\* unordered with respect to the timer task of loadStoredData
FlushSaveEffects ==
  /\ pendingSave # {}
  /\ isHydrated
  /\ storage' = SaveEffects(storage, pendingSave, isHydrated, diffs, generatedNotes,
                            expandedPRs, interruptedStreams,
                            PaginationOf(currentPage, nextPage, initialFetchDone))
  /\ earlyWrites' =
       IF boot = "timer"
       THEN earlyWrites \cup {k \in pendingSave : storage[k] # Absent /\ storage'[k] # storage[k]}
       ELSE earlyWrites
  /\ pendingSave' = {}
  /\ uncaught' = (uncaught \/ Rethrown(storageFull))
  /\ ev' = Ev("flush", "-", 0)
  /\ UNCHANGED <<storageFull, wire, cutOff>>
  /\ UNCHANGED <<memVars, boot, fetchProc, sess, pageLog, logValid, dropped>>

\* loadStoredData (71-91) over the state `m` of the first render: the five
\* reads, then the guarded setters in order; a TypeError ends the callback
\* there, with the setters before it done
Hydrate(store, m) ==
  LET storedDiffs == loadFromStorage(store, "DIFFS", JArray(<<>>))
      storedNotes == loadFromStorage(store, "NOTES", JObject(EmptyRec))
      storedExpanded == loadFromStorage(store, "EXPANDED", JObject(EmptyRec))
      storedInterrupted == loadFromStorage(store, "INTERRUPTED", JObject(EmptyRec))
      pagination == loadFromStorage(store, "PAGINATION",
                                    StringifyPagination(DefaultPagination))
      at1 == ~ThrowsOnAccess(storedDiffs)
      at2 == at1 /\ ~ThrowsOnAccess(storedNotes)
      at3 == at2 /\ ~ThrowsOnAccess(storedExpanded)
      at4 == at3 /\ ~ThrowsOnAccess(storedInterrupted)
      at5 == at4 /\ ~ThrowsOnAccess(pagination)
      setPag == at5 /\ (\/ NumberMember(pagination, "currentPage") # 1
                        \/ NumberMember(pagination, "nextPage") # NoPage
                        \/ FlagMember(pagination, "initialFetchDone"))
  IN [diffs |-> IF at1 /\ LengthPositive(storedDiffs)
                THEN AsDiffs(storedDiffs) ELSE m.diffs,
      generatedNotes |-> IF at2 /\ HasKeys(storedNotes)
                         THEN AsStrings(storedNotes) ELSE m.generatedNotes,
      expandedPRs |-> IF at3 /\ HasKeys(storedExpanded)
                      THEN AsFlags(storedExpanded) ELSE m.expandedPRs,
      interruptedStreams |-> IF at4 /\ HasKeys(storedInterrupted)
                             THEN AsStrings(storedInterrupted)
                             ELSE m.interruptedStreams,
      currentPage |-> IF setPag THEN NumberMember(pagination, "currentPage")
                      ELSE m.currentPage,
      nextPage |-> IF setPag THEN NumberMember(pagination, "nextPage")
                   ELSE m.nextPage,
      initialFetchDone |-> IF setPag THEN FlagMember(pagination, "initialFetchDone")
                           ELSE m.initialFetchDone,
      completed |-> at5]

\* the persisted state of a fresh Home (53-58, 60-62)
DefaultState ==
  [diffs |-> <<>>, generatedNotes |-> EmptyRec, expandedPRs |-> EmptyRec,
   interruptedStreams |-> EmptyRec, currentPage |-> 1, nextPage |-> NoPage,
   initialFetchDone |-> FALSE]

\* the state that is persisted
Persistent ==
  [diffs |-> diffs, generatedNotes |-> generatedNotes, expandedPRs |-> expandedPRs,
   interruptedStreams |-> interruptedStreams, currentPage |-> currentPage,
   nextPage |-> nextPage, initialFetchDone |-> initialFetchDone]

\* the timer callback runs
LoadStoredData ==
  /\ boot = "timer"
  /\ LET h == Hydrate(storage, Persistent)
     IN /\ diffs' = h.diffs
        /\ generatedNotes' = h.generatedNotes
        /\ expandedPRs' = h.expandedPRs
        /\ interruptedStreams' = h.interruptedStreams
        /\ currentPage' = h.currentPage
        /\ nextPage' = h.nextPage
        /\ initialFetchDone' = h.initialFetchDone
        /\ pendingSave' = pendingSave
             \cup (IF h.diffs # diffs THEN {"DIFFS"} ELSE {})
             \cup (IF h.generatedNotes # generatedNotes THEN {"NOTES"} ELSE {})
             \cup (IF h.expandedPRs # expandedPRs THEN {"EXPANDED"} ELSE {})
             \cup (IF h.interruptedStreams # interruptedStreams
                   THEN {"INTERRUPTED"} ELSE {})
             \cup PaginationTouched
        /\ ev' = Ev(IF h.completed THEN "load" ELSE "loadthrew", "-", 0)
  /\ boot' = "ready"
  /\ UNCHANGED <<isLoading, error, loadingPR, isHydrated, storage, fetchProc, sess,
                 pageLog, logValid, dropped, earlyWrites, storageFull, uncaught, wire>>
  /\ cutOff' = {}

\* the items shown as Generating whose stream has delivered text that the
\* item still holds
StreamingItems ==
  {id \in Ids : /\ loadingPR = id
                /\ NotesOr(generatedNotes, id) # <<>>
                /\ \E s \in Slots : /\ sess[s].phase = "stream"
                                    /\ sess[s].item = id
                                    /\ sess[s].acc # <<>>
                                    /\ ~IsBlank(sess[s].acc)}

\* the page is loaded again: a fresh Home is constructed over the same
\* localStorage, and the asynchronous work of the old page is gone
Reload ==
  /\ boot = "ready"
  /\ pendingSave = {}
  /\ diffs' = <<>>
  /\ isLoading' = FALSE
  /\ error' = Null
  /\ currentPage' = 1
  /\ nextPage' = NoPage
  /\ initialFetchDone' = FALSE
  /\ loadingPR' = Null
  /\ generatedNotes' = EmptyRec
  /\ expandedPRs' = EmptyRec
  /\ interruptedStreams' = EmptyRec
  /\ isHydrated' = FALSE
  /\ boot' = "mounted"
  /\ fetchProc' = Free
  /\ sess' = [s \in Slots |-> Free]
  /\ ev' = Ev("reload", "-", 0)
  /\ pageLog' = <<>>
  /\ logValid' = FALSE
  /\ dropped' = FALSE
  /\ earlyWrites' = {}
  /\ uncaught' = FALSE
  /\ UNCHANGED <<storage, pendingSave, storageFull, wire>>
  /\ cutOff' = StreamingItems

\* the user can act once the page is up and its effects have run
Idle == boot = "ready" /\ pendingSave = {}

\* ------------------------------------------------------------------ generateNotes
\* the errors generateNotes can catch (337), by what the catch block tests
ErrAbort == [name |-> "AbortError", message |-> "aborted"]
ErrFetch == [name |-> "TypeError", message |-> "Failed to fetch"]
ErrInvalid == [name |-> "Error", message |-> "Invalid PR data"]
ErrHttp == [name |-> "Error", message |-> "http"]
ErrNoBody == [name |-> "Error", message |-> "No response stream"]
ErrRead == [name |-> "Error", message |-> "Failed to read response stream"]
ErrEmpty == [name |-> "Error", message |-> "Received empty response"]

\* the diagnostic texts of the catch block (341-355)
Diag(kind) == <<"E:" \o kind>>
Diagnostics ==
  {Diag(k) : k \in {"timeout", "network", "invalid", "http", "No response stream",
                    "Failed to read response stream", "Received empty response"}}

\* err.name === 'AbortError' / err.message.includes('Failed to fetch') (344-350)
IsInterruption(err) ==
  \/ err.name = "AbortError"
  \/ err.message = "Failed to fetch"

\* errorMessage (341-355)
ErrorMessage(err) ==
  IF err.name = "AbortError" THEN Diag("timeout")
  ELSE IF err.message = "Failed to fetch" THEN Diag("network")
  ELSE IF err.message = "Invalid PR data" THEN Diag("invalid")
  ELSE Diag(err.message)

\* currentContent.trim() (359-360) as a truth value.  generatedNotes there is
\* the state of the render whose handler was clicked, so the invocation
\* carries what that render held for the item.
HasContent(notes, id) == ~IsBlank(NotesOr(notes, id))

\* isInterrupted && currentContent.trim() (360)
MarksInterrupted(err, hadContent) == IsInterruption(err) /\ hadContent

\* the catch block (337-374) for item id: the pair of maps it leaves
CatchNotes(notes, id, err, hadContent) ==
  IF MarksInterrupted(err, hadContent) THEN notes ELSE Put(notes, id, ErrorMessage(err))

CatchInterrupted(marks, id, err, hadContent) ==
  IF MarksInterrupted(err, hadContent) THEN Put(marks, id, MarkerMsg) ELSE marks

\* variant for C17: the payload is sent unvalidated
NeverInvalid(pr) == FALSE

\* !pr.description?.trim() || !pr.diff?.trim() (255)
InvalidPR(pr) == pr.description # "text" \/ pr.diff # "text"

FreeSlots == {s \in Slots : sess[s] = Free}
Running == {s \in Slots : sess[s] # Free}
SessionsOf(id) == {s \in Running : sess[s].item = id}

\* the Generate / Restart button of a card (592-596) and the Resume button
\* (579-583): both disabled while loadingPR is the card's id
CanStart(pr, isResume) ==
  /\ loadingPR # pr.id
  /\ isResume => pr.id \in DOMAIN interruptedStreams

genFrame == <<diffs, isLoading, error, currentPage, nextPage, initialFetchDone,
              isHydrated, boot, fetchProc, pageLog, logValid, dropped>>

\* variant for C21: a restart keeps the text of the earlier invocation
StartKeepsNotes(notes, id, isResume) == notes

\* if (!isResume) setGeneratedNotes(prev => ({ ...prev, [pr.id]: "" })) (242-244)
StartNotes(notes, id, isResume) ==
  IF isResume THEN notes ELSE Put(notes, id, <<>>)

\* generateNotes(pr, isResume) up to its first await (234-269), for the card
\* at position k.  An invalid payload throws before the request is made and
\* the catch block runs in the same step.
StartGeneration(k, isResume) ==
  /\ Idle
  /\ k \in 1..Len(diffs)
  /\ LET pr == diffs[k]
         id == pr.id
         hadContent == HasContent(generatedNotes, id)
         notes1 == StartNotes(generatedNotes, id, isResume)
         marks1 == Del(interruptedStreams, id)
     IN /\ CanStart(pr, isResume)
        /\ expandedPRs' = Put(expandedPRs, id, TRUE)
        /\ IF InvalidPR(pr)
           THEN /\ generatedNotes' = CatchNotes(notes1, id, ErrInvalid, hadContent)
                /\ interruptedStreams' = CatchInterrupted(marks1, id, ErrInvalid, hadContent)
                /\ loadingPR' = Null
                /\ sess' = sess
                /\ ev' = Ev("invalid", id, 0)
           ELSE /\ FreeSlots # {}
                /\ LET s == CHOOSE x \in FreeSlots : \A y \in FreeSlots : x <= y
                   IN /\ sess' = [sess EXCEPT ![s] =
                                    [phase |-> "fetch", item |-> id, isResume |-> isResume,
                                     hadContent |-> hadContent, timer |-> TRUE,
                                     acc |-> <<>>, prior |-> IF isResume THEN NotesOr(notes1, id) ELSE <<>>,
                                     stalled |-> FALSE]]
                      /\ ev' = Ev("start", id, s)
                /\ generatedNotes' = notes1
                /\ interruptedStreams' = marks1
                /\ loadingPR' = id
  /\ UNCHANGED genFrame
  /\ Persist({"NOTES", "EXPANDED", "INTERRUPTED"})

\* the catch block ends invocation s with err (337-374)
Catch(s, err, kind) ==
  LET id == sess[s].item
  IN /\ generatedNotes' = CatchNotes(generatedNotes, id, err, sess[s].hadContent)
     /\ interruptedStreams' = CatchInterrupted(interruptedStreams, id, err, sess[s].hadContent)
     /\ loadingPR' = Null
     /\ sess' = [sess EXCEPT ![s] = Free]
     /\ ev' = Ev(kind, id, s)
     /\ expandedPRs' = expandedPRs
     /\ UNCHANGED genFrame
     /\ Persist(IF MarksInterrupted(err, sess[s].hadContent)
                THEN {"INTERRUPTED"} ELSE {"NOTES"})

\* the 60 s timer fires (236): controller.abort() rejects the pending fetch
TimeoutFires(s) ==
  /\ sess[s].phase = "fetch"
  /\ sess[s].timer
  /\ Catch(s, ErrAbort, "timeout")

\* fetch rejects: the request could not be made (259)
FetchFails(s) ==
  /\ sess[s].phase = "fetch"
  /\ Catch(s, ErrFetch, "network")

\* the timer's state once the response headers are in (271)
TimerAfterResponse(armed) == FALSE

\* fetch resolves with !res.ok (273-293)
ResponseNotOk(s) ==
  /\ sess[s].phase = "fetch"
  /\ Catch(s, ErrHttp, "http")

\* fetch resolves ok without a body (296-298)
ResponseNoBody(s) ==
  /\ sess[s].phase = "fetch"
  /\ Catch(s, ErrNoBody, "nobody")

\* fetch resolves ok: clearTimeout, getReader (271, 306-308)
ResponseOk(s) ==
  /\ sess[s].phase = "fetch"
  /\ sess' = [sess EXCEPT ![s].phase = "stream",
                          ![s].timer = TimerAfterResponse(sess[s].timer)]
  /\ ev' = Ev("response", sess[s].item, s)
  /\ UNCHANGED <<generatedNotes, expandedPRs, interruptedStreams, loadingPR, storage,
                 pendingSave, earlyWrites,
                 storageFull, uncaught, wire, cutOff>>
  /\ UNCHANGED genFrame

\* the text an increment leaves in the item's entry (318-321)
AppendChunk(notes, id, chunk) == Put(notes, id, Append2(notes, id, chunk))

\* reader.read() yields a value (312-321)
ReadChunk(s, chunk) ==
  /\ sess[s].phase = "stream"
  /\ ~sess[s].stalled
  /\ Len(NotesOr(generatedNotes, sess[s].item)) < MaxText
  /\ Len(sess[s].acc) < MaxText
  /\ sess' = [sess EXCEPT ![s].acc = @ \o chunk]
  /\ generatedNotes' = AppendChunk(generatedNotes, sess[s].item, chunk)
  /\ ev' = Ev("chunk", sess[s].item, s)
  /\ UNCHANGED <<expandedPRs, interruptedStreams, loadingPR>>
  /\ UNCHANGED genFrame
  /\ Persist({"NOTES"})

\* variant for C5: the stream's end is taken as success whatever arrived
NoEmptyCheck(acc) == FALSE

\* !accumulatedContent.trim() (331)
EmptyResponse(acc) == IsBlank(acc)

\* reader.read() yields done (313, 330-335)
ReadDone(s) ==
  /\ sess[s].phase = "stream"
  /\ ~sess[s].stalled
  /\ IF EmptyResponse(sess[s].acc)
     THEN Catch(s, ErrEmpty, IF sess[s].acc = <<>> THEN "empty" ELSE "blank")
     ELSE /\ loadingPR' = Null
          /\ sess' = [sess EXCEPT ![s] = Free]
          /\ ev' = Ev("complete", sess[s].item, s)
          /\ UNCHANGED <<generatedNotes, expandedPRs, interruptedStreams, storage,
                         pendingSave, earlyWrites,
                 storageFull, uncaught, wire, cutOff>>
          /\ UNCHANGED genFrame

\* reader.read() rejects (323-325)
ReadError(s) ==
  /\ sess[s].phase = "stream"
  /\ ~sess[s].stalled
  /\ Catch(s, ErrRead, "readerror")

\* the upstream keeps the response open and sends nothing more
Stall(s) ==
  /\ sess[s].phase = "stream"
  /\ ~sess[s].stalled
  /\ sess' = [sess EXCEPT ![s].stalled = TRUE]
  /\ ev' = Ev("stall", sess[s].item, s)
  /\ UNCHANGED <<generatedNotes, expandedPRs, interruptedStreams, loadingPR, storage,
                 pendingSave, earlyWrites,
                 storageFull, uncaught, wire, cutOff>>
  /\ UNCHANGED genFrame

\* variant for C24: the toggle only ever shows the notes
ToggledOn(flags, id) == Put(flags, id, TRUE)

\* { ...prev, [prId]: !prev[prId] } (378-381); a missing entry reads as undefined
Toggled(flags, id) == Put(flags, id, ~(id \in DOMAIN flags /\ flags[id]))

\* toggleNotes (377-382); the button shows once the item has text (570)
ToggleNotes(k) ==
  /\ Idle
  /\ k \in 1..Len(diffs)
  /\ LET id == diffs[k].id
     IN /\ NotesOr(generatedNotes, id) # <<>>
        /\ expandedPRs' = Toggled(expandedPRs, id)
        /\ ev' = Ev("toggle", id, 0)
  /\ UNCHANGED <<generatedNotes, interruptedStreams, loadingPR, sess>>
  /\ UNCHANGED genFrame
  /\ Persist({"EXPANDED"})

\* ------------------------------------------------------------------ fetchDiffs
Pages == 1..MaxPage

\* the arrays a page response may carry in data.diffs; an item source gives
\* the items of one page distinct ids
PageContents ==
  {p \in UNION {[1..n -> Catalogue] : n \in 0..MaxPageLen} :
     \A i, j \in DOMAIN p : i # j => p[i].id # p[j].id}

\* variant for C23: the items of a page are taken as they come
AnyDiff(d) == TRUE

\* the filter of 194-200
IsValidDiff(d) ==
  /\ d.id \in Ids
  /\ d.description # "nostring"
  /\ d.diff # "nostring"
  /\ d.url # "nostring"

RECURSIVE Filter(_)
Filter(items) ==
  IF items = <<>> THEN <<>>
  ELSE IF IsValidDiff(Head(items)) THEN <<Head(items)>> \o Filter(Tail(items))
  ELSE Filter(Tail(items))

\* variant for C8: a later page is put in front of the held items
MergePrepend(prevDiffs, page, validDiffs) ==
  IF page = 1 THEN validDiffs ELSE validDiffs \o prevDiffs

\* page === 1 ? validDiffs : [...prevDiffs, ...validDiffs]  (206-208)
MergePage(prevDiffs, page, validDiffs) ==
  IF page = 1 THEN validDiffs ELSE prevDiffs \o validDiffs

\* data.currentPage || page (209)
CurrentPageOf(dataCurrentPage, page) ==
  IF dataCurrentPage # 0 THEN dataCurrentPage ELSE page

\* variant for C19: the cursor counted up from the page fetched
NextPageCounted(dataNextPage) ==
  IF fetchProc.page < MaxPage THEN fetchProc.page + 1 ELSE NoPage

\* data.nextPage || null (210)
NextPageOf(dataNextPage) == IF dataNextPage # 0 THEN dataNextPage ELSE NoPage

\* the errors fetchDiffs reports through setError (216-226)
PageErrors == {"timeout", "network", "http", "format", "structure", "parse"}

pageFrame == <<loadingPR, generatedNotes, expandedPRs, interruptedStreams,
               isHydrated, boot, sess>>

\* fetchDiffs(page) up to its await of fetch (133-150); `cleared` is the
\* setDiffs([]) of handleFetchClick, `before` the PaginationState at the click
BeginFetch(page, cleared, before) ==
  /\ isLoading' = TRUE
  /\ error' = Null
  /\ fetchProc' = [phase |-> "request", page |-> page, timer |-> TRUE,
                   initialFetchDone |-> initialFetchDone, before |-> before,
                   stalled |-> FALSE]
  /\ UNCHANGED <<currentPage, nextPage, initialFetchDone>>
  /\ UNCHANGED pageFrame

\* what handleFetchClick leaves in diffs before it fetches (385)
ClearedDiffs(held) == <<>>

\* handleFetchClick (384-387); the button is disabled while isLoading (476)
HandleFetchClick ==
  /\ Idle
  /\ ~isLoading
  /\ diffs' = ClearedDiffs(diffs)
  /\ BeginFetch(1, TRUE, <<diffs, currentPage, nextPage>>)
  /\ ev' = Ev("fetchclick", "-", 0)
  /\ pageLog' = <<>>
  /\ logValid' = FALSE
  /\ dropped' = (dropped \/ diffs # <<>>)
  /\ Persist({"DIFFS"})

\* handleLoadMoreClick (389-393); the button exists while nextPage && !isLoading (677)
HandleLoadMoreClick ==
  /\ Idle
  /\ ~isLoading
  /\ nextPage # NoPage
  /\ diffs' = diffs
  /\ BeginFetch(nextPage, FALSE, <<diffs, currentPage, nextPage>>)
  /\ ev' = Ev("loadmore", "-", 0)
  /\ UNCHANGED <<pageLog, logValid, dropped>>
  /\ Persist({})

\* the catch and finally blocks of fetchDiffs (213-231)
PageCatch(kind) ==
  /\ error' = kind
  /\ isLoading' = FALSE
  /\ fetchProc' = Free
  /\ ev' = Ev("pagefail", kind, 0)
  /\ UNCHANGED <<diffs, currentPage, nextPage, initialFetchDone, pageLog, logValid, dropped>>
  /\ UNCHANGED pageFrame
  /\ Persist({})

\* the 30 s timer fires while fetch is pending (139)
PageTimeout ==
  /\ fetchProc.phase = "request"
  /\ fetchProc.timer
  /\ PageCatch("timeout")

\* fetch rejects (142), answers !response.ok (154-174) or with another
\* content type (177-180)
PageRequestFails(kind) ==
  /\ fetchProc.phase = "request"
  /\ kind \in {"network", "http", "format"}
  /\ PageCatch(kind)

\* the headers of an ok JSON response arrive: clearTimeout (152), then the
\* body is awaited (182)
PageHeaders ==
  /\ fetchProc.phase = "request"
  /\ fetchProc' = [fetchProc EXCEPT !.phase = "body", !.timer = FALSE]
  /\ ev' = Ev("pageheaders", "-", 0)
  /\ UNCHANGED <<diffs, isLoading, error, currentPage, nextPage, initialFetchDone,
                 pageLog, logValid, dropped>>
  /\ UNCHANGED pageFrame
  /\ Persist({})

\* the body stops arriving: await response.json() (182) stays pending
PageStall ==
  /\ fetchProc.phase = "body"
  /\ ~fetchProc.stalled
  /\ fetchProc' = [fetchProc EXCEPT !.stalled = TRUE]
  /\ ev' = Ev("pagestall", "-", 0)
  /\ UNCHANGED <<diffs, isLoading, error, currentPage, nextPage, initialFetchDone,
                 pageLog, logValid, dropped>>
  /\ UNCHANGED pageFrame
  /\ Persist({})

\* response.json() rejects, or the body is no object with a diffs array (182-191)
PageBodyFails(kind) ==
  /\ fetchProc.phase = "body"
  /\ ~fetchProc.stalled
  /\ kind \in {"parse", "structure"}
  /\ PageCatch(kind)

\* the responses the item source may give to a request for `page`
NextPagesAfter(page) == {NoPage} \cup {p \in Pages : p > page}
CurrentPagesFor(page) == {0, page}

\* the body arrives and passes the structure checks (182-211, 229-231)
PageSuccess(items, dataNextPage, dataCurrentPage) ==
  /\ fetchProc.phase = "body"
  /\ ~fetchProc.stalled
  /\ dataNextPage \in NextPagesAfter(fetchProc.page)
  /\ dataCurrentPage \in CurrentPagesFor(fetchProc.page)
  /\ LET page == fetchProc.page
         validDiffs == Filter(items)
     IN /\ diffs' = MergePage(diffs, page, validDiffs)
        /\ currentPage' = CurrentPageOf(dataCurrentPage, page)
        /\ nextPage' = NextPageOf(dataNextPage)
        /\ initialFetchDone' =
             IF ~fetchProc.initialFetchDone THEN TRUE ELSE initialFetchDone
        /\ pageLog' = IF page = 1 THEN <<validDiffs>>
                      ELSE IF logValid THEN Append(pageLog, validDiffs) ELSE <<>>
        /\ logValid' = (page = 1 \/ logValid)
        /\ dropped' = (page # 1 /\ dropped)
        /\ ev' = [k |-> "pageok", i |-> "-", s |-> page, next |-> dataNextPage,
                  raw |-> items]
  /\ isLoading' = FALSE
  /\ error' = error
  /\ fetchProc' = Free
  /\ UNCHANGED pageFrame
  /\ Persist({"DIFFS"})

\* clearStoredData (395-412); the button exists once hydrated and some
\* diffs or notes are held (491)
ClearStoredData ==
  /\ Idle
  /\ isHydrated
  /\ Len(diffs) > 0 \/ DOMAIN generatedNotes # {}
  /\ diffs' = <<>>
  /\ generatedNotes' = EmptyRec
  /\ expandedPRs' = EmptyRec
  /\ interruptedStreams' = EmptyRec
  /\ currentPage' = 1
  /\ nextPage' = NoPage
  /\ initialFetchDone' = FALSE
  /\ ev' = Ev("clear", "-", 0)
  /\ pageLog' = <<>>
  /\ logValid' = FALSE
  /\ dropped' = FALSE
  /\ UNCHANGED <<isLoading, error, loadingPR, isHydrated, boot, pendingSave,
                 fetchProc, sess, earlyWrites, storageFull, wire, cutOff>>
  /\ storage' = RunSaveEffects(NothingStored,
                               ObjectKeys \cup PaginationTouched)
  /\ uncaught' = (uncaught \/ Rethrown(storageFull))

\* ------------------------------------------------------------------ specifications
BootStep ==
  \/ MountEffects
  \/ FlushSaveEffects
  \/ LoadStoredData
  \/ Reload

PageStep ==
  \/ HandleFetchClick
  \/ HandleLoadMoreClick
  \/ PageTimeout
  \/ \E kind \in PageErrors : PageRequestFails(kind)
  \/ PageHeaders
  \/ \E kind \in PageErrors : PageBodyFails(kind)
  \/ \E items \in PageContents, np \in {NoPage} \cup Pages, cp \in {0} \cup Pages :
       PageSuccess(items, np, cp)

GenStep ==
  \/ \E k \in 1..Len(diffs), isResume \in BOOLEAN : StartGeneration(k, isResume)
  \/ \E s \in Slots : TimeoutFires(s)
  \/ \E s \in Slots : FetchFails(s)
  \/ \E s \in Slots : ResponseNotOk(s)
  \/ \E s \in Slots : ResponseNoBody(s)
  \/ \E s \in Slots : ResponseOk(s)
  \/ \E s \in Slots, chunk \in Chunks : ReadChunk(s, chunk)
  \/ \E s \in Slots : ReadDone(s)
  \/ \E s \in Slots : ReadError(s)
  \/ \E k \in 1..Len(diffs) : ToggleNotes(k)

Next ==
  \/ BootStep
  \/ PageStep
  \/ GenStep
  \/ ClearStoredData

Spec == Init /\ [][Next]_vars

\* The page once it is up and a first page has arrived: what Init reaches by
\* MountEffects, LoadStoredData, FlushSaveEffects, HandleFetchClick,
\* PageHeaders and PageSuccess with `page` as the body's diffs.
LoadedWith(page, w) ==
  /\ diffs = page
  /\ isLoading = FALSE
  /\ error = Null
  /\ currentPage = 1
  /\ nextPage = NoPage
  /\ initialFetchDone = TRUE
  /\ loadingPR = Null
  /\ generatedNotes = EmptyRec
  /\ expandedPRs = EmptyRec
  /\ interruptedStreams = EmptyRec
  /\ isHydrated = TRUE
  /\ storage = [DIFFS |-> Stringify("DIFFS", page),
                NOTES |-> Stringify("NOTES", EmptyRec),
                EXPANDED |-> Stringify("EXPANDED", EmptyRec),
                INTERRUPTED |-> Stringify("INTERRUPTED", EmptyRec),
                PAGINATION |-> Stringify("PAGINATION", PaginationOf(1, NoPage, TRUE))]
  /\ boot = "ready"
  /\ pendingSave = {}
  /\ fetchProc = Free
  /\ sess = [s \in Slots |-> Free]
  /\ ev = Ev("pageok", "-", 1)
  /\ pageLog = <<page>>
  /\ logValid = TRUE
  /\ dropped = FALSE
  /\ earlyWrites = {}
  /\ storageFull = FALSE
  /\ uncaught = FALSE
  /\ wire = w
  /\ cutOff = {}

Loaded(page) == LoadedWith(page, NoRequest)

\* a first page of one sound item and one whose diff is blank
FirstPage == <<GoodItem("A"), BlankItem("C")>>
\* a first page of a single sound item
SoloPage == <<GoodItem("A")>>

InitGen == Loaded(FirstPage)
InitSolo == Loaded(SoloPage)

\* generation over a loaded page
GenNext ==
  \/ GenStep
  \/ ClearStoredData

\* generation over two cards: starting the one frees the other's buttons
SpecGen == InitGen /\ [][GenNext]_vars

\* generation over a single card
SpecSolo == InitSolo /\ [][GenNext]_vars

\* pagination and the mount sequence, no generation
PageNext ==
  \/ BootStep
  \/ PageStep
  \/ ClearStoredData

SpecPage == Init /\ [][PageNext]_vars

\* generation over two cards, the stored data never cleared
SpecGenKeep == InitGen /\ [][GenStep]_vars

\* A stalled upstream is one more thing the network may do.  The timers of
\* the event loop fire, and an upstream that has not stalled ends its
\* response; nothing else is promised.
FairNext ==
  \/ GenStep
  \/ \E s \in Slots : Stall(s)

Fairness ==
  \A s \in Slots :
    /\ WF_vars(TimeoutFires(s))
    /\ WF_vars(ReadDone(s) \/ ReadError(s))

FairGen == InitSolo /\ [][FairNext]_vars /\ Fairness

\* generation together with refetches of a one-page item source, from one
\* held card
MixNext ==
  \/ GenStep
  \/ HandleFetchClick
  \/ PageTimeout
  \/ PageHeaders
  \/ \E items \in {SoloPage, <<>>} : PageSuccess(items, NoPage, 0)
  \/ ClearStoredData

SpecMix == InitSolo /\ [][MixNext]_vars

\* the same with page loads: what one page stored, the next one hydrates
StoreNext ==
  \/ MixNext
  \/ BootStep

SpecStore == InitSolo /\ [][StoreNext]_vars

\* what an earlier page, another version of it or anything else on the
\* origin may have left under a key: nothing, a text that is no JSON, null,
\* an empty container of the other kind, or a value the page itself stores
Only(id, v) == [i \in {id} |-> v]

SampleValue(key) ==
  CASE key = "DIFFS" -> SoloPage
    [] key = "NOTES" -> Only("A", <<"x">>)
    [] key = "EXPANDED" -> Only("A", TRUE)
    [] key = "INTERRUPTED" -> Only("A", MarkerMsg)
    [] key = "PAGINATION" -> PaginationOf(1, MaxPage, TRUE)

WrongShape(key) == IF key = "DIFFS" THEN JObject(EmptyRec) ELSE JArray(<<>>)

StoredValues(key) ==
  {Absent, Unparseable, [kind |-> "json", val |-> JNull],
   [kind |-> "json", val |-> WrongShape(key)], Stringify(key, SampleValue(key))}

\* a first render over such a localStorage
InitStored ==
  /\ diffs = <<>>
  /\ isLoading = FALSE
  /\ error = Null
  /\ currentPage = 1
  /\ nextPage = NoPage
  /\ initialFetchDone = FALSE
  /\ loadingPR = Null
  /\ generatedNotes = EmptyRec
  /\ expandedPRs = EmptyRec
  /\ interruptedStreams = EmptyRec
  /\ isHydrated = FALSE
  /\ \E d \in StoredValues("DIFFS"), n \in StoredValues("NOTES"),
        e \in StoredValues("EXPANDED"), i \in StoredValues("INTERRUPTED"),
        pag \in StoredValues("PAGINATION") :
       storage = [DIFFS |-> d, NOTES |-> n, EXPANDED |-> e, INTERRUPTED |-> i,
                  PAGINATION |-> pag]
  /\ boot = "mounted"
  /\ pendingSave = {}
  /\ fetchProc = Free
  /\ sess = [s \in Slots |-> Free]
  /\ ev = Ev("init", "-", 0)
  /\ pageLog = <<>>
  /\ logValid = FALSE
  /\ dropped = FALSE
  /\ earlyWrites = {}
  /\ storageFull = FALSE
  /\ uncaught = FALSE
  /\ wire = NoRequest
  /\ cutOff = {}

SpecHydrate == InitStored /\ [][BootStep]_vars

\* the storage quota is reached: from here on setItem throws
QuotaChanges ==
  /\ ~storageFull
  /\ storageFull' = TRUE
  /\ ev' = Ev("quota", "-", 0)
  /\ UNCHANGED <<memVars, storage, boot, pendingSave, fetchProc, sess, pageLog,
                 logValid, dropped, earlyWrites, uncaught, wire, cutOff>>

\* generation and refetches over a storage that may be full
QuotaNext ==
  \/ MixNext
  \/ QuotaChanges

SpecQuota == InitSolo /\ [][QuotaNext]_vars

\* an item source whose only item has a diff of whitespace: no request for
\* notes is ever sent, so no invocation outlives its click
BlankPage == <<BlankItem("C")>>

InitBlank == Loaded(BlankPage)

BlankNext ==
  \/ \E k \in 1..Len(diffs), isResume \in BOOLEAN : StartGeneration(k, isResume)
  \/ \E k \in 1..Len(diffs) : ToggleNotes(k)
  \/ HandleFetchClick
  \/ PageTimeout
  \/ PageHeaders
  \/ \E items \in {BlankPage, <<>>} : PageSuccess(items, NoPage, 0)
  \/ ClearStoredData
  \/ BootStep

SpecBlank == InitBlank /\ [][BlankNext]_vars

\* ------------------------------------------------------------------ the request
\* the diffs an item may carry, character by character
DiffChars == {"x", "y", " "}
DiffTexts == UNION {[1..n -> DiffChars] : n \in 0..MaxDiff}

\* the diff field of the request body (page.tsx 264-267)
RequestDiff(diff) == Trim(diff)

\* generateNotes up to its fetch for an item with this diff (254-269): the
\* validation (both fields; the description is taken as present), then the
\* POST body
SendRequest ==
  /\ wire.stage = "click"
  /\ wire' = IF IsBlank(wire.promptBody)
             THEN [stage |-> "invalid", promptBody |-> wire.promptBody]
             ELSE [stage |-> "sent", promptBody |-> wire.promptBody,
                   body |-> RequestDiff(wire.promptBody)]
  /\ UNCHANGED <<memVars, storage, boot, pendingSave, fetchProc, sess, ev, pageLog,
                 logValid, dropped, earlyWrites, storageFull, uncaught, cutOff>>

\* diff.slice(0, 12000) (route.ts 74)
Slice(diff, limit) == SubSeq(diff, 1, IF Len(diff) < limit THEN Len(diff) ELSE limit)

\* the route builds the user prompt from the body it received (route.ts 70-77)
RoutePost ==
  /\ wire.stage = "sent"
  /\ wire' = [stage |-> "upstream", promptBody |-> wire.promptBody,
              body |-> wire.body, userPrompt |-> Slice(wire.body, SliceLimit),
              arrived |-> <<>>, upstream |-> "running",
              enqueued |-> <<>>, output |-> "readable"]
  /\ UNCHANGED <<memVars, storage, boot, pendingSave, fetchProc, sess, ev, pageLog,
                 logValid, dropped, earlyWrites, storageFull, uncaught, cutOff>>

\* the content of an upstream chunk, chunk.choices[0]?.delta?.content || ''
\* (route.ts 96): a text, or nothing
Contents == {<<>>, <<"x">>, <<"e-acute">>, <<"x", "e-acute">>}

\* TextEncoder.encode (route.ts 98): the UTF-8 bytes of a text
EncodeChar(c) == IF c = "e-acute" THEN <<195, 169>> ELSE <<120>>

RECURSIVE Encode(_)
Encode(text) ==
  IF text = <<>> THEN <<>> ELSE EncodeChar(Head(text)) \o Encode(Tail(text))

\* variant for C29: every chunk is passed on, whatever its content
EnqueueAlways(queue, content) == Append(queue, Encode(content))

\* if (content) controller.enqueue(encoder.encode(content)) (route.ts 97-99)
Enqueue(queue, content) ==
  IF content # <<>> THEN Append(queue, Encode(content)) ELSE queue

\* the upstream iterator yields a chunk (route.ts 95-100)
UpstreamChunk(content) ==
  /\ wire.stage = "upstream"
  /\ wire.output = "readable"
  /\ Len(wire.arrived) < MaxChunks
  /\ wire' = [wire EXCEPT !.arrived = Append(@, content),
                          !.enqueued = Enqueue(@, content)]
  /\ UNCHANGED <<memVars, storage, boot, pendingSave, fetchProc, sess, ev, pageLog,
                 logValid, dropped, earlyWrites, storageFull, uncaught, cutOff>>

\* the upstream iterator is done: controller.close() (route.ts 101)
UpstreamDone ==
  /\ wire.stage = "upstream"
  /\ wire.output = "readable"
  /\ wire' = [wire EXCEPT !.upstream = "completed", !.output = "closed"]
  /\ UNCHANGED <<memVars, storage, boot, pendingSave, fetchProc, sess, ev, pageLog,
                 logValid, dropped, earlyWrites, storageFull, uncaught, cutOff>>

\* the upstream iterator throws: controller.error(error) (route.ts 102-104)
UpstreamFails ==
  /\ wire.stage = "upstream"
  /\ wire.output = "readable"
  /\ wire' = [wire EXCEPT !.upstream = "failed", !.output = "errored"]
  /\ UNCHANGED <<memVars, storage, boot, pendingSave, fetchProc, sess, ev, pageLog,
                 logValid, dropped, earlyWrites, storageFull, uncaught, cutOff>>

InitWire ==
  \E d \in DiffTexts : LoadedWith(SoloPage, [stage |-> "click", promptBody |-> d])

WireNext ==
  \/ SendRequest
  \/ RoutePost
  \/ \E content \in Contents : UpstreamChunk(content)
  \/ UpstreamDone
  \/ UpstreamFails

SpecWire == InitWire /\ [][WireNext]_vars

\* The page fetch with a body that may stall: its timer fires while armed,
\* and a body that has not stalled settles.
FairPageNext ==
  \/ PageNext
  \/ PageStall

PageFairness ==
  /\ WF_vars(PageTimeout)
  /\ WF_vars(\/ \E kind \in PageErrors : PageBodyFails(kind)
             \/ \E items \in PageContents, np \in {NoPage} \cup Pages, cp \in {0} \cup Pages :
                  PageSuccess(items, np, cp))

FairPage == Init /\ [][FairPageNext]_vars /\ PageFairness

\* ------------------------------------------------------------------ the view
\* what a card shows of its item (570-621)
ViewState(id) ==
  IF loadingPR = id THEN "Generating"
  ELSE IF id \in DOMAIN interruptedStreams THEN "Interrupted"
  ELSE IF id \notin DOMAIN generatedNotes THEN "Idle"
  ELSE IF generatedNotes[id] \in Diagnostics THEN "Failed"
  ELSE "Complete"

View(id) ==
  [state |-> ViewState(id),
   accumulatedText |-> NotesOr(generatedNotes, id),
   visible |-> (id \in DOMAIN expandedPRs /\ expandedPRs[id]),
   interruptionMarker |-> id \in DOMAIN interruptedStreams]

InFlight(s) == sess[s].phase \in {"fetch", "stream"}

\* the steps of a generateNotes invocation, as ev names them
StartKinds == {"start", "invalid"}
EndKinds == {"timeout", "network", "http", "nobody", "readerror", "empty", "blank",
             "complete"}
SessionKinds == StartKinds \cup EndKinds \cup {"response", "chunk"}

\* invocation s ends in this step
Ends(s) == InFlight(s) /\ ev'.s = s /\ ev'.k \in EndKinds

RECURSIVE Concat(_)
Concat(pages) == IF pages = <<>> THEN <<>> ELSE Head(pages) \o Concat(Tail(pages))

NoDupIds(items) ==
  \A i, j \in DOMAIN items : i # j => items[i].id # items[j].id

\* ------------------------------------------------------------------ claims

\* C1: at most one generateNotes invocation is in flight for an item at any
\* time, whatever starts on this and other items are interleaved.
C1_OneSessionPerItem ==
  \A id \in Ids : Cardinality(SessionsOf(id)) <= 1

\* C2: data stored by an earlier page load is not overwritten before
\* loadStoredData has read it: no save effect writes before the hydration pass.
C2_NoWriteBeforeHydration ==
  earlyWrites = {}

\* C3: an invocation that has appended an increment and then ends by a
\* timeout, a dropped transport or an abort leaves the item Interrupted: the
\* text as appended so far, a marker recorded, no longer Generating.
C3_InterruptionKeepsText ==
  [][\A s \in Slots :
       (/\ sess[s].phase = "stream"
        /\ sess[s].acc # <<>>
        /\ ev'.s = s
        /\ ev'.k \in {"timeout", "network", "readerror"})
       => (/\ sess[s].item \in DOMAIN interruptedStreams'
           /\ NotesOr(generatedNotes', sess[s].item) = NotesOr(generatedNotes, sess[s].item)
           /\ loadingPR' # sess[s].item)]_vars

\* C4: the text an item held when it was resumed is a strict prefix of the
\* text it holds when that invocation completes, and a restart leaves the
\* text empty as it starts.
C4_ResumeKeepsPrefix ==
  [][\A s \in Slots : \A id \in Ids :
       /\ (Ends(s) /\ ev'.k = "complete" /\ sess[s].isResume /\ sess[s].item = id)
            => IsStrictPrefix(sess[s].prior, NotesOr(generatedNotes', id))
       /\ (ev'.k = "start" /\ ev'.s = s /\ ev'.i = id /\ ~sess'[s].isResume)
            => generatedNotes'[id] = <<>>]_vars

\* C5: when the stream ends normally and nothing was accumulated, the
\* invocation fails: the item's text becomes the diagnostic message, the step
\* records no interruption marker and the item is not Generating; it never
\* completes.
C5_EmptyStreamFails ==
  [][\A s \in Slots : \A id \in Ids :
       (/\ sess[s].phase = "stream"
        /\ sess[s].item = id
        /\ sess[s].acc = <<>>
        /\ ev'.s = s
        /\ ev'.k \in {"empty", "blank", "complete"})
       => (/\ ev'.k = "empty"
           /\ generatedNotes'[id] = Diag("Received empty response")
           /\ ViewState(id)' \notin {"Complete", "Generating"}
           /\ interruptedStreams' = interruptedStreams)]_vars

\* C5 witness: a stream has just ended with nothing delivered
C5_Witness ==
  /\ ev.k = "empty"
  /\ generatedNotes[ev.i] = Diag("Received empty response")

\* C6: a step of one item's invocation leaves the view of every other item
\* as it was; an item stays Generating while its own invocation is in flight.
C6_OtherItemsUntouched ==
  [][\A a, b \in Ids :
       (a # b /\ ev'.i = a /\ ev'.k \in SessionKinds) => View(b)' = View(b)]_vars

\* C7: the held item sequence never holds two items with the same id.
C7_NoDuplicateIds ==
  NoDupIds(diffs)

\* C8: after page 1 and further pages have been fetched with success, the
\* held sequence is the concatenation of their valid items in fetch order
\* (page 1 alone right after a fetch of page 1), without duplicates when the
\* pages share no id.
C8_HeldIsConcatenation ==
  logValid =>
    /\ diffs = Concat(pageLog)
    /\ NoDupIds(Concat(pageLog)) => NoDupIds(diffs)
    /\ (ev.k = "pageok" /\ ev.s = 1) => diffs = pageLog[1]

\* C8 witness: page 1 and a later page, both with items and sharing no id
C8_Witness ==
  /\ logValid
  /\ ev.k = "pageok"
  /\ Len(pageLog) >= 2
  /\ pageLog[1] # <<>>
  /\ pageLog[2] # <<>>
  /\ NoDupIds(Concat(pageLog))

\* C9: a page fetch that fails leaves the held items, currentPage and
\* nextPage as they were before the command that issued it.
C9_FailedFetchKeepsState ==
  [][(fetchProc # Free /\ ev'.k = "pagefail")
       => <<diffs', currentPage', nextPage'>> = fetchProc.before]_vars

\* C10: every invocation in flight ends, a stalled stream included: the
\* time budget ends it.
C10_SessionsEnd ==
  \A s \in Slots : InFlight(s) ~> ~InFlight(s)

\* C11: every page fetch that was started ends with the loading flag
\* cleared, also when the response body stops arriving: the time bound ends it.
C11_PageFetchEnds ==
  isLoading ~> ~isLoading

\* the ids that have a generation record
RecordIds ==
  DOMAIN generatedNotes \cup DOMAIN expandedPRs \cup DOMAIN interruptedStreams

\* C12: every id with an entry in generatedNotes, expandedPRs or
\* interruptedStreams is the id of exactly one held item.
C12_RecordsHaveOneItem ==
  \A id \in RecordIds : Cardinality({k \in DOMAIN diffs : diffs[k].id = id}) = 1

\* C13: when an invocation has applied an increment, the item's text is its
\* text at the start of that invocation (empty for a restart, the kept text
\* for a resume) followed by the increments it has applied so far, in order,
\* and nothing else.
C13_TextIsStartPlusIncrements ==
  [][\A s \in Slots :
       (ev'.k = "chunk" /\ ev'.s = s)
         => NotesOr(generatedNotes', sess'[s].item) = sess'[s].prior \o sess'[s].acc]_vars

\* C14: once the save effects have run, loading the stored values into a
\* fresh page gives back the state that was saved: items, texts, visibility
\* flags, interruption markers and pagination state.
C14_LoadAfterSave ==
  (Idle \/ ev.k = "load") =>
    Hydrate(storage, DefaultState) =
      [diffs |-> diffs, generatedNotes |-> generatedNotes, expandedPRs |-> expandedPRs,
       interruptedStreams |-> interruptedStreams, currentPage |-> currentPage,
       nextPage |-> nextPage, initialFetchDone |-> initialFetchDone,
       completed |-> TRUE]

\* C14 witness: a page load has just restored items, a text entry, a
\* visibility flag, a marker and the pagination state
C14_Witness ==
  /\ ev.k = "load"
  /\ diffs # <<>>
  /\ generatedNotes # EmptyRec
  /\ \E id \in DOMAIN expandedPRs : expandedPRs[id]
  /\ interruptedStreams # EmptyRec
  /\ initialFetchDone

\* a stored item is a JSON value of the shape its key holds
WellShaped(key, item) ==
  /\ item.kind = "json"
  /\ item.val.t = (IF key = "DIFFS" THEN "array" ELSE "object")
  /\ key = "PAGINATION"
       => DOMAIN item.val.members = {"currentPage", "nextPage", "initialFetchDone"}

\* the state hydration is to give: per key the stored value if it is well
\* shaped, the default otherwise
ExpectedState(store) ==
  LET ok(key) == WellShaped(key, store[key])
      pag == store.PAGINATION.val
  IN [diffs |-> IF ok("DIFFS") THEN AsDiffs(store.DIFFS.val) ELSE <<>>,
      generatedNotes |-> IF ok("NOTES") THEN AsStrings(store.NOTES.val) ELSE EmptyRec,
      expandedPRs |-> IF ok("EXPANDED") THEN AsFlags(store.EXPANDED.val) ELSE EmptyRec,
      interruptedStreams |-> IF ok("INTERRUPTED") THEN AsStrings(store.INTERRUPTED.val)
                             ELSE EmptyRec,
      currentPage |-> IF ok("PAGINATION") THEN NumberMember(pag, "currentPage") ELSE 1,
      nextPage |-> IF ok("PAGINATION") THEN NumberMember(pag, "nextPage") ELSE NoPage,
      initialFetchDone |-> IF ok("PAGINATION") THEN FlagMember(pag, "initialFetchDone")
                           ELSE FALSE]

\* C15: after loadStoredData has run, every key that is absent, unparseable
\* or of the wrong shape in storage has its default in memory, and every
\* other key has its stored value.
C15_MalformedGivesDefaults ==
  ev.k \in {"load", "loadthrew"} => Persistent = ExpectedState(storage)

EmptyPayload(pr) == pr.description = "blank" \/ pr.diff = "blank"

\* C17: a start on an item whose description or diff is empty or whitespace
\* fails in the same step with the invalid-data message: no request is
\* sent (no invocation is left awaiting fetch) and the item is Failed, not
\* Generating.
C17_EmptyPayloadFailsAtOnce ==
  [][\A k \in DOMAIN diffs : \A id \in Ids :
       (/\ ev'.k \in StartKinds
        /\ ev'.i = id
        /\ diffs[k].id = id
        /\ EmptyPayload(diffs[k]))
       => (/\ ev'.k = "invalid"
           /\ sess' = sess
           /\ generatedNotes'[id] = Diag("invalid")
           /\ ViewState(id)' = "Failed")]_vars

\* C17 witness: the blank item has just been started and shows the message
C17_Witness ==
  /\ ev.k = "invalid"
  /\ \E k \in DOMAIN diffs : diffs[k].id = ev.i /\ EmptyPayload(diffs[k])
  /\ generatedNotes[ev.i] = Diag("invalid")
  /\ loadingPR = Null

\* C18: the diff field of the request the client sends is the first
\* min(L, limit) characters of the item's diff of length L (here for diffs
\* without whitespace at either end, which trim leaves alone).
C18_ClientTruncates ==
  (wire.stage \in {"sent", "upstream"} /\ Trim(wire.promptBody) = wire.promptBody)
    => wire.body = Slice(wire.promptBody, SliceLimit)

\* C19: a successful fetch of page p leaves currentPage = p and the cursor at
\* the nextPage of that response, null when the response names none; Load
\* More fetches the page the cursor names and is not taken with a null cursor.
C19_CursorFollowsResponse ==
  [][/\ ev'.k = "pageok" =>
          /\ fetchProc.page = ev'.s
          /\ currentPage' = ev'.s
          /\ nextPage' = IF ev'.next \in Pages THEN ev'.next ELSE NoPage
     /\ ev'.k = "loadmore" =>
          /\ nextPage \in Pages
          /\ fetchProc'.page = nextPage
          /\ fetchProc'.phase = "request"]_vars

\* page 2 was fetched through Load More and was the last page
C19_Witness ==
  /\ ev.k = "pageok"
  /\ ev.s = 2
  /\ currentPage = 2
  /\ nextPage = NoPage
  /\ Len(diffs) > 1

\* C20: in every reachable state an item that carries an interruption marker
\* has non-empty accumulated text, also after an interrupted restart of an
\* item that had text from an earlier invocation.
C20_MarkerImpliesText ==
  \A id \in DOMAIN interruptedStreams : NotesOr(generatedNotes, id) # <<>>

\* C21: right after a start is accepted the item is Generating, its card is
\* expanded and it has no interruption marker; its text is empty after a
\* fresh start and is the text it had before the call after a resume.
C21_StartSetsRecord ==
  [][\A s \in Slots : \A id \in Ids :
       (ev'.k = "start" /\ ev'.s = s /\ ev'.i = id)
       => (/\ ViewState(id)' = "Generating"
           /\ View(id)'.visible
           /\ id \notin DOMAIN interruptedStreams'
           /\ NotesOr(generatedNotes', id) =
                IF sess'[s].isResume THEN NotesOr(generatedNotes, id) ELSE <<>>)]_vars

\* C21 witness: a resume has just been accepted on an item that keeps its text
C21_Witness ==
  /\ ev.k = "start"
  /\ \E s \in Slots :
       /\ ev.s = s
       /\ sess[s].phase = "fetch"
       /\ sess[s].isResume
       /\ NotesOr(generatedNotes, sess[s].item) # <<>>
       /\ loadingPR = sess[s].item

\* C22: a stream that ends normally after delivering non-empty text, be it
\* only whitespace, leaves the item Complete: not Generating, without a
\* marker, its text the text at the start followed by what was delivered.
C22_NonEmptyStreamCompletes ==
  [][\A s \in Slots : \A id \in Ids :
       (/\ sess[s].phase = "stream"
        /\ sess[s].item = id
        /\ sess[s].acc # <<>>
        /\ ev'.s = s
        /\ ev'.k \in {"empty", "blank", "complete"})
       => (/\ ViewState(id)' = "Complete"
           /\ id \notin DOMAIN interruptedStreams'
           /\ NotesOr(generatedNotes', id) = sess[s].prior \o sess[s].acc)]_vars

\* an item whose id, description, prompt payload and url are all strings
FieldsAreStrings(d) ==
  /\ d.id \in Ids
  /\ {d.description, d.diff, d.url} \subseteq {"text", "blank"}

\* C23: a successful fetch adds to the held sequence the items of the page
\* whose fields are all strings, in the order of the page, and none of the
\* others; with invalid items on the page the fetch still succeeds and sets
\* currentPage and the cursor.
C23_InvalidItemsDropped ==
  [][ev'.k = "pageok" =>
       /\ diffs' = (IF ev'.s = 1 THEN <<>> ELSE diffs)
                      \o SelectSeq(ev'.raw, FieldsAreStrings)
       /\ \A k \in DOMAIN diffs' : FieldsAreStrings(diffs'[k])
       /\ error' = Null
       /\ currentPage' = ev'.s
       /\ nextPage' = ev'.next]_vars

\* C23 witness: a fetched page carried an invalid item before a valid one,
\* and only the valid one is held
C23_Witness ==
  /\ ev.k = "pageok"
  /\ Len(ev.raw) = 2
  /\ ~FieldsAreStrings(ev.raw[1])
  /\ diffs = <<ev.raw[2]>>
  /\ currentPage = 1

MemoryOf(key) ==
  CASE key = "DIFFS" -> diffs
    [] key = "NOTES" -> generatedNotes
    [] key = "EXPANDED" -> expandedPRs
    [] key = "INTERRUPTED" -> interruptedStreams
    [] key = "PAGINATION" -> PaginationOf(currentPage, nextPage, initialFetchDone)

EmptyOf(key) ==
  CASE key = "DIFFS" -> <<>>
    [] key = "PAGINATION" -> DefaultPagination
    [] OTHER -> EmptyRec

C26_ReloadKeepsInterruption ==
  [][ev'.k \in {"load", "loadthrew"} =>
       \A id \in cutOff : ViewState(id)' \in {"Interrupted", "Generating"}]_vars

\* C27: a step that an invocation or a page fetch started before the reset
\* takes right after the reset (an increment, an outcome, a response)
\* applies nothing: the items and the generation records stay empty.
C27_ResetStopsWorkInFlight ==
  [][(ev.k = "clear" /\ ev'.k \in {"chunk", "pageok", "pagefail"} \cup EndKinds)
       => (/\ diffs' = <<>>
           /\ generatedNotes' = EmptyRec
           /\ interruptedStreams' = EmptyRec)]_vars

\* C28: whenever no page fetch is in flight the held sequence is empty or
\* begins with page 1: no items are held on top of a sequence that a refetch
\* of page 1 emptied and that no page 1 has replaced since, as after a failed
\* refetch followed by Load More.
C28_HeldBeginsWithPageOne ==
  fetchProc = Free => (diffs = <<>> \/ ~dropped)

RECURSIVE Flatten(_)
Flatten(seqs) == IF seqs = <<>> THEN <<>> ELSE Head(seqs) \o Flatten(Tail(seqs))

\* C29: the bytes the route has put on its output are the UTF-8 bytes of the
\* non-empty contents of the upstream chunks in arrival order, one output
\* chunk for each and none for an empty content; the output is closed
\* exactly when the upstream has completed and errored exactly when the
\* upstream has failed.
C29_RouteForwardsStream ==
  wire.stage = "upstream" =>
    /\ Flatten(wire.enqueued) = Encode(Flatten(wire.arrived))
    /\ Len(wire.enqueued) = Cardinality({i \in DOMAIN wire.arrived : wire.arrived[i] # <<>>})
    /\ \A i \in DOMAIN wire.enqueued : wire.enqueued[i] # <<>>
    /\ wire.output = "closed" <=> wire.upstream = "completed"
    /\ wire.output = "errored" <=> wire.upstream = "failed"
    /\ wire.output = "readable" <=> wire.upstream = "running"

\* C29 witness: an upstream that sent an empty content between two texts has
\* completed and the output is closed with two chunks
C29_Witness ==
  /\ wire.stage = "upstream"
  /\ wire.output = "closed"
  /\ Len(wire.arrived) = 3
  /\ wire.arrived[1] # <<>>
  /\ wire.arrived[2] = <<>>
  /\ wire.arrived[3] # <<>>
  /\ Len(wire.enqueued) = 2

====
